---- MODULE Spec2Model ----
(***************************************************************************)
(* HDFSStore of cerebro/storage/hdfs.py: the construction of the store     *)
(* from a location string (parse_url, _check_url, host/port resolution),   *)
(* the scratch-directory scope of get_local_output_dir_fn and the          *)
(* incremental upload of sync_fn.                                          *)
(*                                                                         *)
(* A Python str is a sequence of one-character strings.  An optional value *)
(* (None or a value) is a record: NoneV or Some(v).  A modification time   *)
(* is a number of half seconds, so that int(os.path.getmtime(p)) is a      *)
(* real truncation.                                                        *)
(***************************************************************************)
EXTENDS Integers, Sequences, FiniteSets, TLC

VARIABLES
    url,        \* the location string handed to HDFSStore(...), SpecStore only
    store,      \* the HDFSStore object: how __init__ ended and its fields
    scope,      \* position of the local_run_path() scope of the run
    on_disk,    \* local disk: whether the scratch directory exists
    files,      \* local disk: modification time of each file of the tree
    content,    \* local disk: what each file of the tree holds
    ops,        \* calls of sync begun and writes of the run done, together
    state_fs,   \* SyncState.fs: 0 is None, k the handle of the k-th connection
    uploaded,   \* SyncState.uploaded: local path -> last modified_ts
    remote,     \* HDFS: what the latest upload of each file left there
    connects,   \* handles pa.hdfs.connect has returned so far
    pc,         \* position of the running call of the sync function
    walk,       \* os.walk: the directories still to be listed
    local_dir,  \* the directory whose files the loop body is visiting
    todo,       \* the files of local_dir not yet visited
    modified_ts,\* the local variable modified_ts of the file being uploaded
    cur,        \* what the latest call of the sync function did
    prev        \* what the call before it did

vars == <<url, store, scope, on_disk, files, content, ops, state_fs, uploaded,
          remote, connects, pc, walk, local_dir, todo, modified_ts, cur, prev>>

storeVars == <<url, store>>
diskVars == <<scope, on_disk, files, content>>
syncVars == <<state_fs, uploaded, remote, connects, pc, walk, local_dir, todo,
              modified_ts, cur, prev>>

(***************************************************************************)
(* Bounds of the model.                                                    *)
(***************************************************************************)
MaxTime == 2        \* modification times are 0..MaxTime half seconds
MaxOps == 5         \* calls of sync and writes of the run, counted together
MaxLen == 4         \* length of the enumerated part of a location string

(***************************************************************************)
(* Optional values and strings.                                            *)
(***************************************************************************)
NoneV == [some |-> FALSE]
Some(v) == [some |-> TRUE, v |-> v]

SLASH == "/"
COLON == ":"
NL == "\n"

\* s[k:] of Python, k >= 0
SliceFrom(s, k) == SubSeq(s, k + 1, Len(s))
\* s[:k] of Python, k >= 0
SliceTo(s, k) == SubSeq(s, 1, k)
\* s[k:] of Python for any integer k (a negative k counts from the end)
PySliceFrom(s, k) ==
    IF k >= 0 THEN SliceFrom(s, k)
    ELSE IF Len(s) + k <= 0 THEN s ELSE SliceFrom(s, Len(s) + k)
\* s[:k] of Python for any integer k
PySliceTo(s, k) ==
    IF k >= 0 THEN SliceTo(s, IF k > Len(s) THEN Len(s) ELSE k)
    ELSE IF Len(s) + k <= 0 THEN <<>> ELSE SliceTo(s, Len(s) + k)

\* posixpath.join(a, b)
os_path_join(a, b) ==
    IF Len(b) > 0 /\ b[1] = SLASH THEN b
    ELSE IF Len(a) = 0 \/ a[Len(a)] = SLASH THEN a \o b
    ELSE a \o <<SLASH>> \o b

(***************************************************************************)
(* The local disk.  The tree a run writes into its scratch directory is    *)
(* drawn from two files: f and sb/d/h.  A directory other than the scratch *)
(* root is on disk exactly while a file below it is.                       *)
(***************************************************************************)
Absent == 0 - 1
FileIds == {1, 2}
DirIds == {1, 2, 3}
RootDir == 1
FileName(f) == IF f = 1 THEN <<"f">> ELSE <<"h">>
FileDir(f) == IF f = 1 THEN RootDir ELSE 3
DirName(d) == CASE d = 1 -> <<>> [] d = 2 -> <<"s", "b">> [] OTHER -> <<"d">>
DirParent(d) == d - 1

RECURSIVE IsUnder(_, _)
\* directory c is directory d or lies below it
IsUnder(c, d) == c = d \/ (c # RootDir /\ IsUnder(DirParent(c), d))

Mtimes == 0..MaxTime
NoFiles == [f \in FileIds |-> Absent]

\* what a file holds: one of two byte strings; a file that is created holds
\* the first
Contents == {0, 1}
NoContent == [f \in FileIds |-> 0]
\* what an upload that raised left at its remote path
Torn == 0 - 2

\* dirpath = tempfile.mkdtemp(dir=temp_dir): the name of the new directory
dirpath == <<SLASH, "t">>

DirOnDisk(d, root_on_disk, fl) ==
    /\ root_on_disk
    /\ d = RootDir \/ \E f \in FileIds : fl[f] # Absent /\ IsUnder(FileDir(f), d)

\* every order in which a directory listing can return the set S
Listings(S) ==
    {s \in [1..Cardinality(S) -> S] : \A i, j \in 1..Cardinality(S) : s[i] = s[j] => i = j}

(***************************************************************************)
(* get_local_output_dir_fn: the scope of local_run_path().                 *)
(***************************************************************************)
\* a slip: the cleanup as the last statement of the body, not in a finally
RunsCleanup_OnReturn(how) == how = "returned"

\* shutil.rmtree(dirpath): the directory and everything in it is gone
rmtree(exists) == FALSE

\* the finally clause runs however the body of the with statement ends
RunsCleanup(how) == TRUE

\* dirpath = tempfile.mkdtemp(dir=temp_dir); yield dirpath
EnterScope ==
    /\ scope = "out"
    /\ scope' = "body"
    /\ on_disk' = TRUE
    /\ files' = NoFiles
    /\ content' = NoContent
    /\ UNCHANGED <<ops, storeVars, syncVars>>

\* the body of the with statement ends, by returning or by raising
ExitScope(how) ==
    /\ scope = "body"
    /\ pc = "idle"
    /\ scope' = how
    /\ IF RunsCleanup(how)
       THEN on_disk' = rmtree(on_disk) /\ files' = NoFiles /\ content' = NoContent
       ELSE UNCHANGED <<on_disk, files, content>>
    /\ UNCHANGED <<ops, storeVars, syncVars>>

\* the run (or anything else) creates, touches, back-dates or removes a file
\* of the scratch directory, between two steps of sync or while none runs
LocalChange(f, v) ==
    /\ scope = "body"
    /\ ops < MaxOps
    /\ v # files[f]
    /\ files' = [files EXCEPT ![f] = v]
    /\ content' = IF v = Absent THEN [content EXCEPT ![f] = 0] ELSE content
    /\ ops' = ops + 1
    /\ cur' = IF pc = "idle" THEN cur ELSE [cur EXCEPT !.dirty = TRUE]
    /\ UNCHANGED <<scope, on_disk, storeVars, state_fs, uploaded, remote,
                   connects, pc, walk, local_dir, todo, modified_ts, prev>>

\* the run (or anything else) writes other bytes into a file of the scratch
\* directory; the modification time it leaves is v, which can be the one the
\* file had (a write within the clock's tick, or the time set back after it)
Rewrite(f, v) ==
    /\ scope = "body"
    /\ ops < MaxOps
    /\ files[f] # Absent
    /\ files' = [files EXCEPT ![f] = v]
    /\ content' = [content EXCEPT ![f] = 1 - @]
    /\ ops' = ops + 1
    /\ cur' = IF pc = "idle" THEN cur ELSE [cur EXCEPT !.dirty = TRUE]
    /\ UNCHANGED <<scope, on_disk, storeVars, state_fs, uploaded, remote,
                   connects, pc, walk, local_dir, todo, modified_ts, prev>>

(***************************************************************************)
(* sync_fn(run_id): the closure fn and its SyncState.                      *)
(***************************************************************************)
\* the store's prefix path and the run id of the session
PrefixPath == <<SLASH, "p">>
RunId == <<"r">>

\* FilesystemStore.get_run_path(run_id): the remote root of the run
get_run_path(run_id) == os_path_join(PrefixPath, run_id)

hdfs_root_path == get_run_path(RunId)

\* what one call of the sync function did: its number n, its argument top,
\* how it ended (status), whether it called the connection factory (conn),
\* the files whose timestamp it read (seen), how often it uploaded each file
\* with success (ups), the file whose upload raised (failed), the uploads it
\* asked the handle for (sent), whether the tree changed while it ran
\* (dirty), the tree (snap) and the ledger (led0) as it began, and the
\* modification time os.path.getmtime returned for each file it read (at)
NoCall ==
    [n |-> 0, top |-> <<>>, status |-> "none", conn |-> "none",
     seen |-> {}, ups |-> [f \in FileIds |-> 0], failed |-> 0, sent |-> {},
     dirty |-> FALSE,
     snap |-> NoFiles, led0 |-> <<>>, at |-> NoFiles]

\* what the model keeps of the call before the latest one
Past(rec) == [rec EXCEPT !.top = <<>>, !.sent = {}, !.conn = "none"]

\* if state.fs is None
NeedsConnect(fs) == fs = 0

\* a slip: the handle is used and not kept
CacheHandle_Not(fs, h) == fs

\* state.fs = get_filesystem(): pa.hdfs.connect returned the handle h
CacheHandle(fs, h) == h

\* a slip: a handle that is not connected is cached
AfterConnectError_Broken(fs) == 0 - 1

\* state.fs = get_filesystem(): pa.hdfs.connect raised, nothing is assigned
AfterConnectError(fs) == fs

\* prefix = len(local_run_path) + 1
PrefixLen(local_run_path) == Len(local_run_path) + 1

\* hdfs_dir = os.path.join(hdfs_root_path, local_dir[prefix:])
HdfsDir(root, local_run_path, ldir) ==
    os_path_join(root, SliceFrom(ldir, PrefixLen(local_run_path)))

\* local_path = os.path.join(local_dir, file)
LocalPath(ldir, f) == os_path_join(ldir, FileName(f))

\* hdfs_path = os.path.join(hdfs_dir, file)
HdfsPath(root, local_run_path, ldir, f) ==
    os_path_join(HdfsDir(root, local_run_path, ldir), FileName(f))

\* int(os.path.getmtime(local_path)) of a modification time in half seconds
IntMtime(m) == m \div 2

\* a slip: < for <=
Skips_Strict(led, p, ts) == p \in DOMAIN led /\ ts < led[p]

\* a slip: the timestamp is not compared
Skips_Known(led, p, ts) == p \in DOMAIN led

\* a slip: the ledger is not looked at
Skips_None(led, p, ts) == FALSE

\* a slip: = for <=, a file is uploaded whenever its timestamp differs
Skips_Changed(led, p, ts) == p \in DOMAIN led /\ ts = led[p]

\* if local_path in uploaded: ... if modified_ts <= last_modified_ts: continue
Skips(led, p, ts) == p \in DOMAIN led /\ ts <= led[p]

\* a slip: the timestamp is read again once the transfer is over
RecordedTs_AfterUpload(ts, mtime) == IntMtime(mtime)

\* the right-hand side of uploaded[local_path] = modified_ts: the timestamp
\* read before the ledger test, whatever the file's modification time now is
RecordedTs(ts, mtime) == ts

\* uploaded[local_path] = modified_ts
Recorded(led, p, ts) ==
    [q \in DOMAIN led \cup {p} |-> IF q = p THEN ts ELSE led[q]]

\* a slip: the ledger entry is written before the upload
AfterUploadError_Recorded(led, p, ts) == Recorded(led, p, ts)

\* hdfs.upload raised: the assignment after it is not reached
AfterUploadError(led, p, ts) == led

\* the for loop goes on with the next file, or os.walk with the next directory
NextFile(rest) ==
    /\ todo' = rest
    /\ pc' = IF rest = <<>> THEN "walk" ELSE "stat"

\* an exception leaves fn: nothing of the walk is kept
Raise(rec, err) ==
    /\ cur' = [rec EXCEPT !.status = err]
    /\ pc' = "idle"
    /\ walk' = <<>>
    /\ local_dir' = <<>>
    /\ todo' = <<>>
    /\ modified_ts' = 0

\* fn(local_run_path) is called; the handle is made if there is none yet
SyncCall(slash, connected) ==
    /\ pc = "idle"
    /\ scope # "out"
    /\ ops < MaxOps
    /\ ops' = ops + 1
    /\ LET top == IF slash THEN dirpath \o <<SLASH>> ELSE dirpath
           rec == [NoCall EXCEPT !.n = cur.n + 1, !.top = top,
                                 !.status = "running", !.snap = files,
                                 !.led0 = uploaded]
       IN  /\ prev' = Past(cur)
           /\ IF NeedsConnect(state_fs)
              THEN IF connected
                   THEN /\ connects' = connects + 1
                        /\ state_fs' = CacheHandle(state_fs, connects + 1)
                        /\ cur' = [rec EXCEPT !.conn = "ok"]
                        /\ pc' = "walk"
                        /\ walk' = <<[d |-> RootDir, path |-> top]>>
                        /\ UNCHANGED <<local_dir, todo, modified_ts>>
                   ELSE /\ Raise([rec EXCEPT !.conn = "fail"], "ConnectError")
                        /\ state_fs' = AfterConnectError(state_fs)
                        /\ UNCHANGED connects
              ELSE /\ connected
                   /\ cur' = rec
                   /\ pc' = "walk"
                   /\ walk' = <<[d |-> RootDir, path |-> top]>>
                   /\ UNCHANGED <<connects, state_fs, local_dir, todo, modified_ts>>
    /\ UNCHANGED <<uploaded, remote, storeVars, diskVars>>

\* os.walk lists the next directory and yields it; a directory that cannot
\* be listed is passed over (onerror is None)
WalkDir ==
    /\ pc = "walk"
    /\ walk # <<>>
    /\ LET e == Head(walk)
           here == {f \in FileIds : files[f] # Absent /\ FileDir(f) = e.d}
           subs == {c \in DirIds : c # RootDir /\ DirParent(c) = e.d
                                    /\ DirOnDisk(c, on_disk, files)}
       IN  IF DirOnDisk(e.d, on_disk, files)
           THEN \E fs \in Listings(here), ds \in Listings(subs) :
                  /\ walk' = [i \in 1..Len(ds) |->
                                [d |-> ds[i],
                                 path |-> os_path_join(e.path, DirName(ds[i]))]]
                              \o Tail(walk)
                  /\ local_dir' = e.path
                  /\ NextFile(fs)
           ELSE /\ walk' = Tail(walk)
                /\ UNCHANGED <<local_dir, todo, pc>>
    /\ UNCHANGED <<state_fs, uploaded, remote, connects, modified_ts, cur, prev,
                   ops, storeVars, diskVars>>

\* modified_ts = int(os.path.getmtime(local_path)) and the ledger test
StatFile ==
    /\ pc = "stat"
    /\ LET f == Head(todo)
           p == LocalPath(local_dir, f)
           ts == IntMtime(files[f])
           rec == [cur EXCEPT !.seen = @ \cup {f}, !.at[f] = files[f]]
       IN  IF files[f] = Absent
           THEN Raise(cur, "OSError")
           ELSE /\ cur' = rec
                /\ UNCHANGED <<walk, local_dir>>
                /\ IF Skips(uploaded, p, ts)
                   THEN NextFile(Tail(todo)) /\ modified_ts' = 0
                   ELSE pc' = "upload" /\ modified_ts' = ts /\ UNCHANGED todo
    /\ UNCHANGED <<state_fs, uploaded, remote, connects, prev, ops,
                   storeVars, diskVars>>

\* hdfs.upload(hdfs_path, f) returned: the remote file holds what the local
\* file holds
Stored(rem, f, bytes) == [rem EXCEPT ![f] = bytes]

\* hdfs.upload(hdfs_path, f) raised: the remote file is as it was or torn
AfterTransferError(rem, f) == {rem, [rem EXCEPT ![f] = Torn]}

\* with open(local_path, 'rb') as f: hdfs.upload(hdfs_path, f), then the
\* ledger entry
UploadFile(done) ==
    /\ pc = "upload"
    /\ LET f == Head(todo)
           p == LocalPath(local_dir, f)
           rec == [cur EXCEPT !.sent = @ \cup
                     {[file |-> f, handle |-> state_fs,
                       path |-> HdfsPath(hdfs_root_path, cur.top, local_dir, f)]}]
       IN  IF files[f] = Absent
           THEN Raise(cur, "OSError") /\ UNCHANGED <<uploaded, remote>>
           ELSE IF done
           THEN /\ uploaded' = Recorded(uploaded, p,
                                         RecordedTs(modified_ts, files[f]))
                /\ remote' = Stored(remote, f, content[f])
                /\ cur' = [rec EXCEPT !.ups[f] = @ + 1]
                /\ NextFile(Tail(todo))
                /\ modified_ts' = 0
                /\ UNCHANGED <<walk, local_dir>>
           ELSE /\ Raise([rec EXCEPT !.failed = f], "UploadError")
                /\ uploaded' = AfterUploadError(uploaded, p, modified_ts)
                /\ remote' \in AfterTransferError(remote, f)
    /\ UNCHANGED <<state_fs, connects, prev, ops, storeVars, diskVars>>

\* os.walk is exhausted: fn returns
SyncReturn ==
    /\ pc = "walk"
    /\ walk = <<>>
    /\ pc' = "idle"
    /\ cur' = [cur EXCEPT !.status = "ok"]
    /\ local_dir' = <<>>
    /\ UNCHANGED <<state_fs, uploaded, remote, connects, walk, todo, modified_ts, prev,
                   ops, storeVars, diskVars>>

(***************************************************************************)
(* HDFSStore.parse_url: re.search(URL_PATTERN, url) with                   *)
(*   URL_PATTERN = '^(?:(.+://))?(?:([^/:]+))?(?:[:]([0-9]+))?(?:(.+))?$'  *)
(* A position i of s is between s[i] and s[i+1].  Every group is greedy    *)
(* and optional: the regex engine tries the longest match of a group       *)
(* first, then the shorter ones, then the pattern without the group, and   *)
(* keeps the first attempt on which the rest of the pattern matches.       *)
(***************************************************************************)
FS_PREFIX == <<"h", "d", "f", "s", ":", "/", "/">>

Digits == {"0", "1", "2", "3", "4", "5", "6", "7", "8", "9"}
DigitVal(c) ==
    CASE c = "0" -> 0 [] c = "1" -> 1 [] c = "2" -> 2 [] c = "3" -> 3
      [] c = "4" -> 4 [] c = "5" -> 5 [] c = "6" -> 6 [] c = "7" -> 7
      [] c = "8" -> 8 [] OTHER -> 9

RECURSIVE int(_)
\* int(s) of a string of decimal digits
int(s) == IF s = <<>> THEN 0
          ELSE 10 * int(SubSeq(s, 1, Len(s) - 1)) + DigitVal(s[Len(s)])

\* '.' matches any character but a line break
IsDot(c) == c # NL
\* [^/:]
IsHostChar(c) == c # SLASH /\ c # COLON
\* [0-9]
IsDigit(c) == c \in Digits

AllIn(s, i, j, Class(_)) == \A k \in (i + 1)..j : Class(s[k])

\* '$' matches at the end of the string and before a line break that ends it
AtEnd(s, i) == i = Len(s) \/ (i = Len(s) - 1 /\ s[Len(s)] = NL)

NoMatch == [ok |-> FALSE]

RECURSIVE Match4From(_, _, _)
\* (?:(.+))?$ at position i: the group ending at j, else at j - 1, ..., else
\* the pattern without the group
Match4From(s, i, j) ==
    IF j > i
    THEN IF AllIn(s, i, j, IsDot) /\ AtEnd(s, j)
         THEN [ok |-> TRUE, g4 |-> <<i, j>>]
         ELSE Match4From(s, i, j - 1)
    ELSE IF AtEnd(s, i) THEN [ok |-> TRUE, g4 |-> <<>>] ELSE NoMatch

Match4(s, i) == Match4From(s, i, Len(s))

RECURSIVE Match3From(_, _, _)
\* (?:[:]([0-9]+))? and the rest, at position i
Match3From(s, i, j) ==
    IF j >= i + 2
    THEN IF s[i + 1] = COLON /\ AllIn(s, i + 1, j, IsDigit) /\ Match4(s, j).ok
         THEN Match4(s, j) @@ [g3 |-> <<i + 1, j>>]
         ELSE Match3From(s, i, j - 1)
    ELSE IF Match4(s, i).ok THEN Match4(s, i) @@ [g3 |-> <<>>] ELSE NoMatch

Match3(s, i) == Match3From(s, i, Len(s))

RECURSIVE Match2From(_, _, _)
\* (?:([^/:]+))? and the rest, at position i
Match2From(s, i, j) ==
    IF j > i
    THEN IF AllIn(s, i, j, IsHostChar) /\ Match3(s, j).ok
         THEN Match3(s, j) @@ [g2 |-> <<i, j>>]
         ELSE Match2From(s, i, j - 1)
    ELSE IF Match3(s, i).ok THEN Match3(s, i) @@ [g2 |-> <<>>] ELSE NoMatch

Match2(s, i) == Match2From(s, i, Len(s))

RECURSIVE Match1From(_, _)
\* ^(?:(.+://))? and the rest
Match1From(s, j) ==
    IF j >= 4
    THEN IF /\ AllIn(s, 0, j - 3, IsDot)
            /\ SubSeq(s, j - 2, j) = <<COLON, SLASH, SLASH>>
            /\ Match2(s, j).ok
         THEN Match2(s, j) @@ [g1 |-> <<0, j>>]
         ELSE Match1From(s, j - 1)
    ELSE IF Match2(s, 0).ok THEN Match2(s, 0) @@ [g1 |-> <<>>] ELSE NoMatch

\* re.search(URL_PATTERN, s): the spans of the groups, or no match
re_search(s) == Match1From(s, Len(s))

\* match.group(k): None when the group took no part in the match
Group(s, span) == IF span = <<>> THEN NoneV ELSE Some(SubSeq(s, span[1] + 1, span[2]))
\* a slip: the position counted from 1
Start_FromOne(span) == IF span = <<>> THEN 0 - 1 ELSE span[1] + 1

\* match.start(k): -1 when the group took no part in the match
Start(span) == IF span = <<>> THEN 0 - 1 ELSE span[1]

\* parse_url(url): (prefix, host, port, path, path_offset), or the
\* AttributeError of match.group when re.search returned None
Parsed(u, m) ==
    IF ~m.ok THEN [matched |-> FALSE]
    ELSE [matched |-> TRUE,
          prefix |-> Group(u, m.g1),
          host |-> Group(u, m.g2),
          port |-> IF m.g3 = <<>> THEN NoneV ELSE Some(int(Group(u, m.g3).v)),
          path |-> Group(u, m.g4),
          path_offset |-> Start(m.g4)]

parse_url(url_) == CHOOSE r \in {Parsed(u, m) : u \in {url_}, m \in {re_search(url_)}} : TRUE

\* Python truth of an optional string and of an optional integer
TrueStr(o) == o.some /\ o.v # <<>>
TrueInt(o) == o.some /\ o.v # 0

\* _check_url(url, prefix, path): the error it raises, or "ok"
check_url(prefix, path) ==
    IF prefix.some /\ prefix.v # FS_PREFIX THEN "ValueError"
    ELSE IF ~TrueStr(path) THEN "ValueError"
    ELSE "ok"

\* self._url_prefix = prefix_path[:path_offset] if prefix else self.FS_PREFIX
UrlPrefix(u, prefix, path_offset) ==
    IF TrueStr(prefix) THEN PySliceTo(u, path_offset) ELSE FS_PREFIX

DEFAULT_HOST == <<"d", "e", "f", "a", "u", "l", "t">>

\* host = host or url_host or 'default'
ResolveHost(host, url_host) ==
    IF TrueStr(host) THEN host.v
    ELSE IF TrueStr(url_host) THEN url_host.v
    ELSE DEFAULT_HOST

\* port = port or url_port or 0
ResolvePort(port, url_port) ==
    IF TrueInt(port) THEN port.v
    ELSE IF TrueInt(url_port) THEN url_port.v
    ELSE 0

Unbuilt == [st |-> "new"]

\* HDFSStore.__init__(prefix_path, host, port): the object it leaves, or the
\* exception that leaves it
Built(prefix_path, r, host, port, connected) ==
    IF ~r.matched THEN [st |-> "AttributeError", host_arg |-> host, port_arg |-> port]
    ELSE IF check_url(r.prefix, r.path) # "ok"
    THEN [st |-> check_url(r.prefix, r.path), parsed |-> r,
          host_arg |-> host, port_arg |-> port]
    ELSE IF ~connected
    THEN [st |-> "ConnectError", parsed |-> r, host_arg |-> host, port_arg |-> port]
    ELSE [st |-> "ok", parsed |-> r, host_arg |-> host, port_arg |-> port,
          url_prefix |-> UrlPrefix(prefix_path, r.prefix, r.path_offset),
          hdfs_kwargs |-> [host |-> ResolveHost(host, r.host),
                           port |-> ResolvePort(port, r.port)]]

HDFSStore(prefix_path, host, port, connected) ==
    CHOOSE o \in {Built(prefix_path, r, host, port, connected) :
                     r \in {parse_url(prefix_path)}} : TRUE

\* the location strings of the model: every string of at most MaxLen
\* characters of UrlChars, bare or behind a scheme, and the strings the
\* documentation names
UrlChars == {"a", SLASH, COLON, "8", NL}
RECURSIVE Strings(_)
Strings(n) ==
    IF n = 0 THEN {<<>>}
    ELSE Strings(n - 1) \cup
         {Append(t, c) : t \in {x \in Strings(n - 1) : Len(x) = n - 1}, c \in UrlChars}
Heads == {<<>>, FS_PREFIX, <<"s", "3", ":", "/", "/">>}
Examples == {<<"h", "d", "f", "s", ":", "/", "/", "n", "n", ":", "8", "0", "2", "0", "/", "a", "/", "b">>,
             <<"h", "d", "f", "s", ":", "/", "/", "/", "a", "/", "b">>,
             <<"/", "a", "/", "b">>,
             <<"s", "3", ":", "/", "/", "b", "u", "c", "k", "e", "t", "/", "k", "e", "y">>}
Urls == {h \o t : h \in Heads, t \in Strings(MaxLen)} \cup Examples
HostArgs == {NoneV, Some(<<"x">>)}
PortArgs == {NoneV, Some(0), Some(9)}

\* store = HDFSStore(url, host=host, port=port)
NewStore(host, port, connected) ==
    /\ store = Unbuilt
    /\ store' = HDFSStore(url, host, port, connected)
    /\ UNCHANGED <<url, ops, diskVars, syncVars>>

(***************************************************************************)
(* The specifications.                                                     *)
(***************************************************************************)
TheUrl == <<"h", "d", "f", "s", ":", "/", "/", "n", "n", ":", "8", "0", "2", "0", "/", "a", "/", "b">>

InitDisk ==
    /\ scope = "out"
    /\ on_disk = FALSE
    /\ files = NoFiles
    /\ content = NoContent

InitSync ==
    /\ state_fs = 0
    /\ uploaded = <<>>
    /\ remote = NoFiles
    /\ connects = 0
    /\ pc = "idle"
    /\ walk = <<>>
    /\ local_dir = <<>>
    /\ todo = <<>>
    /\ modified_ts = 0
    /\ cur = NoCall
    /\ prev = NoCall

\* a store built from a location of the documentation, and the sync
\* function of one run just returned by sync_fn(run_id)
Init ==
    /\ url = TheUrl
    /\ store = HDFSStore(TheUrl, NoneV, NoneV, TRUE)
    /\ ops = 0
    /\ InitDisk
    /\ InitSync

Next ==
    \/ EnterScope
    \/ \E how \in {"returned", "raised"} : ExitScope(how)
    \/ \E f \in FileIds, v \in Mtimes \cup {Absent} : LocalChange(f, v)
    \/ \E f \in FileIds, v \in Mtimes : Rewrite(f, v)
    \/ \E slash \in BOOLEAN, connected \in BOOLEAN : SyncCall(slash, connected)
    \/ WalkDir
    \/ StatFile
    \/ \E done \in BOOLEAN : UploadFile(done)
    \/ SyncReturn

Spec == Init /\ [][Next]_vars

\* the construction of a store from any location string
InitStore ==
    /\ url \in Urls
    /\ store = Unbuilt
    /\ ops = 0
    /\ InitDisk
    /\ InitSync

NextStore ==
    \E host \in HostArgs, port \in PortArgs, connected \in BOOLEAN :
        NewStore(host, port, connected)

SpecStore == InitStore /\ [][NextStore]_vars

(***************************************************************************)
(* Properties of the sync function (checked under Spec).                   *)
(***************************************************************************)
\* the path of a file relative to the scratch root, and its local path
RelPath(f) == IF f = 1 THEN <<"f">> ELSE <<"s", "b", SLASH, "d", SLASH, "h">>
AbsPath(f) == dirpath \o <<SLASH>> \o RelPath(f)

InTree(rec) == {f \in FileIds : rec.snap[f] # Absent}
Asked(rec) == {x.file : x \in rec.sent}
Ended(rec) == rec.status \in {"ok", "ConnectError", "OSError", "UploadError"}

\* the latest two calls have ended and the tree was the same from the
\* beginning of the first to the end of the second
QuietPair ==
    /\ pc = "idle"
    /\ Ended(prev) /\ Ended(cur)
    /\ ~prev.dirty /\ ~cur.dirty
    /\ prev.snap = cur.snap

\* C1 as stated: when a call of sync ends without error and no local file
\* changes before the next call, the next call uploads nothing and every
\* file of the tree is uploaded exactly once over the two calls.
C1_AsStated ==
    (QuietPair /\ prev.status = "ok" /\ cur.status = "ok") =>
        /\ Asked(cur) = {}
        /\ \A f \in InTree(cur) : prev.ups[f] + cur.ups[f] = 1

\* C1 as amended: when a call of sync ends without error and no local file
\* changes before the next call, the next call uploads nothing; over the two
\* calls every file of the tree is uploaded at most once, and exactly once
\* when the ledger had no entry for it as the first of the two calls began.
C1_Idempotent ==
    (QuietPair /\ prev.status = "ok" /\ cur.status = "ok") =>
        /\ Asked(cur) = {}
        /\ \A f \in FileIds : cur.ups[f] = 0
        /\ \A f \in InTree(cur) :
              /\ prev.ups[f] + cur.ups[f] <= 1
              /\ AbsPath(f) \notin DOMAIN prev.led0 => prev.ups[f] + cur.ups[f] = 1

C1_Witness ==
    /\ QuietPair /\ prev.status = "ok" /\ cur.status = "ok"
    /\ InTree(cur) = FileIds
    /\ prev.led0 = <<>>
    /\ \A f \in FileIds : prev.ups[f] = 1 /\ cur.ups[f] = 0

\* the decision of one call that ran to its end on an unchanging tree: a
\* file is uploaded iff its path is not in the ledger or its timestamp (in
\* whole seconds) is strictly greater than the recorded one
C2_Rule ==
    (pc = "idle" /\ cur.status = "ok" /\ ~cur.dirty) =>
        \A f \in FileIds :
            cur.ups[f] = (IF f \in InTree(cur) /\
                             (\/ AbsPath(f) \notin DOMAIN cur.led0
                              \/ cur.snap[f] \div 2 > cur.led0[AbsPath(f)])
                          THEN 1 ELSE 0)

\* between the latest two calls, both without error, the modification time
\* of f advanced and no other file changed
Touched(f) ==
    /\ pc = "idle"
    /\ prev.status = "ok" /\ cur.status = "ok"
    /\ ~prev.dirty /\ ~cur.dirty
    /\ prev.snap[f] # Absent /\ cur.snap[f] > prev.snap[f]
    /\ \A g \in FileIds \ {f} : cur.snap[g] = prev.snap[g]

OnlyUpload(f) ==
    /\ cur.ups[f] = 1
    /\ \A g \in FileIds \ {f} : cur.ups[g] = 0
    /\ Asked(cur) = {f}

\* C2 as stated: a file is uploaded iff its path is not in the ledger or its
\* timestamp is strictly greater than the recorded one; so advancing the
\* modification time of F1 only, between two successful calls, makes the
\* second call upload F1 once and no other file.
C2_AsStated ==
    /\ C2_Rule
    /\ \A f \in FileIds : Touched(f) => OnlyUpload(f)

\* C2 as amended: the same rule; advancing the modification time of F1
\* only, between two successful calls, so that its timestamp in whole
\* seconds becomes strictly greater than the one the ledger holds for F1,
\* makes the second call upload F1 once and no other file.
C2_ChangeDetection ==
    /\ C2_Rule
    /\ \A f \in FileIds :
          ( /\ Touched(f)
            /\ AbsPath(f) \in DOMAIN cur.led0
            /\ cur.snap[f] \div 2 > cur.led0[AbsPath(f)] ) => OnlyUpload(f)

C2_Witness ==
    /\ Touched(1)
    /\ InTree(cur) = FileIds
    /\ AbsPath(1) \in DOMAIN cur.led0
    /\ cur.snap[1] \div 2 > cur.led0[AbsPath(1)]
    /\ OnlyUpload(1)
    /\ prev.ups[2] = 1

\* the state a failed upload leaves: the call is over, and the ledger holds
\* for the failed file what it held as the call began
C3_Failed ==
    cur.status = "UploadError" =>
        /\ pc = "idle"
        /\ cur.failed \in FileIds
        /\ (AbsPath(cur.failed) \in DOMAIN uploaded) =
             (AbsPath(cur.failed) \in DOMAIN cur.led0)
        /\ AbsPath(cur.failed) \in DOMAIN uploaded =>
             uploaded[AbsPath(cur.failed)] = cur.led0[AbsPath(cur.failed)]
        /\ \A f \in FileIds : cur.ups[f] > 0 =>
             /\ AbsPath(f) \in DOMAIN uploaded
             /\ ~cur.dirty => uploaded[AbsPath(f)] = cur.snap[f] \div 2

\* the retry of a call that a failed upload ended, on the same tree
C3_Retry ==
    (QuietPair /\ prev.status = "UploadError") =>
        /\ \A f \in Asked(cur) : f = prev.failed \/ f \notin prev.seen
        /\ \A f \in FileIds : prev.ups[f] > 0 =>
              /\ prev.ups[f] + cur.ups[f] = 1
              /\ f \notin Asked(cur)
              /\ AbsPath(f) \in DOMAIN cur.led0

\* the step on which an upload fails visits no further file and leaves the
\* ledger as it is
C3_Abort ==
    (cur.status = "running" /\ cur'.status = "UploadError") =>
        /\ pc' = "idle"
        /\ uploaded' = uploaded
        /\ walk' = <<>> /\ todo' = <<>>

\* C3: an upload that fails ends the call, the ledger gets no (updated)
\* entry for the failed file and keeps the entries of the files the call had
\* uploaded; a retry on the same tree uploads only the failed file and files
\* the first call had not visited, so a file the first call uploaded is
\* uploaded once over the two calls.
C3_PartialFailure == [](C3_Failed /\ C3_Retry) /\ [][C3_Abort]_vars

C3_Witness ==
    /\ QuietPair /\ prev.status = "UploadError" /\ cur.status = "ok"
    /\ prev.failed = 2 /\ prev.ups[1] = 1
    /\ cur.ups[1] = 0 /\ cur.ups[2] = 1

\* C4: every upload goes to <remote root>/<r>, r the path of the file
\* relative to the scratch root, whether or not the scratch root string
\* ends with a path separator.
C4_RemotePath ==
    \A x \in cur.sent : x.path = hdfs_root_path \o <<SLASH>> \o RelPath(x.file)

\* C5: the scratch directory exists while the body of the scope runs, and
\* is gone, with everything in it, once the scope is left, by return or by
\* exception.
C5_ScopedCleanup ==
    /\ scope = "body" => on_disk
    /\ scope \in {"returned", "raised"} => ~on_disk /\ files = NoFiles

C5_Witness ==
    /\ scope = "raised"
    /\ ~on_disk
    /\ cur.status = "ok"
    /\ InTree(cur) = FileIds

\* what C6 says of the handle: at most one connection is ever made, and
\* every upload is asked of the handle it returned
C6_OneHandle ==
    /\ connects <= 1
    /\ state_fs \in {0, 1}
    /\ cur.n >= 1 /\ cur.conn = "none" => state_fs = 1
    /\ \A x \in cur.sent : x.handle = 1 /\ state_fs = 1

\* C6 as stated: the connection factory is called on the first call of the
\* sync function only; no later call connects, and every upload goes
\* through the one cached handle.
C6_AsStated ==
    /\ C6_OneHandle
    /\ cur.conn # "none" => cur.n = 1

\* C6 as amended: the connection factory is called on the first call, and
\* on a later call only when the call before it failed to connect; once a
\* handle is cached no later call connects, and every upload goes through
\* the one cached handle.
C6_ConnectOnce ==
    /\ C6_OneHandle
    /\ cur.n = 1 => cur.conn # "none"
    /\ (cur.conn # "none" /\ cur.n > 1) => prev.status = "ConnectError"

C6_Witness ==
    /\ pc = "idle"
    /\ cur.n = 2 /\ cur.conn = "none" /\ cur.status = "ok"
    /\ prev.ups[1] = 1 /\ cur.ups[1] = 1
    /\ \A x \in cur.sent : x.handle = 1

\* C10: a call on which the connection fails raises that error, uploads
\* nothing, leaves the ledger as it was and caches no handle, and the next
\* call connects again.
C10_ConnectFailure ==
    /\ cur.status = "ConnectError" =>
          /\ pc = "idle"
          /\ cur.conn = "fail"
          /\ state_fs = 0
          /\ uploaded = cur.led0
          /\ cur.sent = {} /\ cur.seen = {}
          /\ \A f \in FileIds : cur.ups[f] = 0
    /\ prev.status = "ConnectError" => cur.conn # "none"

C10_Witness ==
    /\ prev.status = "ConnectError"
    /\ cur.conn = "ok" /\ cur.status = "ok"
    /\ cur.ups[1] = 1

\* what one step may do to the ledger entry of the file f: an entry stays
\* and does not decrease; an entry is made or changed only on the step on
\* which the upload of f, asked of the handle, returns without raising
C11_Entry(f) ==
    LET p == AbsPath(f) IN
    /\ p \in DOMAIN uploaded =>
          p \in DOMAIN uploaded' /\ uploaded'[p] >= uploaded[p]
    /\ (p \in DOMAIN uploaded' /\
          (p \notin DOMAIN uploaded \/ uploaded'[p] # uploaded[p])) =>
          /\ pc = "upload" /\ Head(todo) = f
          /\ files[f] # Absent
          /\ cur'.ups[f] = cur.ups[f] + 1
          /\ f \in Asked(cur')
          /\ cur'.status = "running"

\* C11: over any calls of sync, ended well or not, and any local changes
\* between and during them, back-dating included, the timestamp the ledger
\* holds for a path never decreases, a path in the ledger is never removed,
\* and a path enters the ledger only when an upload of it has succeeded.
C11_MonotonicLedger ==
    [][ /\ DOMAIN uploaded' \subseteq {AbsPath(f) : f \in FileIds}
        /\ \A f \in FileIds : C11_Entry(f) ]_vars

\* the file was uploaded at second 1 and then back-dated to second 0; a
\* later call, after one that failed, read it and the ledger still holds 1
C11_Witness ==
    /\ pc = "idle"
    /\ cur.status = "ok" /\ prev.status = "UploadError"
    /\ 1 \in cur.seen /\ cur.ups[1] = 0
    /\ IntMtime(cur.snap[1]) = 0 /\ ~cur.dirty
    /\ AbsPath(1) \in DOMAIN uploaded /\ uploaded[AbsPath(1)] = 1

\* the writer advanced f by a whole second or more after the call before the
\* latest one read its timestamp and uploaded it, and the latest call, which
\* ended without error, ran on what the writer left or read it
C12_Advanced(f) ==
    /\ pc = "idle"
    /\ cur.status = "ok"
    /\ prev.ups[f] >= 1 /\ prev.at[f] # Absent
    /\ \/ ~cur.dirty /\ cur.snap[f] >= prev.at[f] + 2
       \/ f \in cur.seen /\ cur.at[f] >= prev.at[f] + 2

C13_SameSecond(rec, f) ==
    /\ f \in rec.seen /\ rec.at[f] # Absent
    /\ AbsPath(f) \in DOMAIN rec.led0
    /\ IntMtime(rec.at[f]) = rec.led0[AbsPath(f)]

\* C13: sync compares the timestamp in whole seconds only, never what the
\* file holds; a file in the ledger whose timestamp in whole seconds equals
\* the recorded one is skipped by every later call of the session, whatever
\* it holds, so a call of sync that ends without error can leave a remote
\* copy unlike the local file.
C13_TimestampOnly ==
    /\ \A f \in FileIds : C13_SameSecond(cur, f) =>
          /\ cur.ups[f] = 0
          /\ f \notin Asked(cur)
          /\ cur.failed # f
          /\ uploaded[AbsPath(f)] = cur.led0[AbsPath(f)]
    /\ \A f \in FileIds :
          ( /\ pc = "idle" /\ cur.status = "ok" /\ ~cur.dirty
            /\ cur.snap[f] # Absent
            /\ AbsPath(f) \in DOMAIN cur.led0
            /\ IntMtime(cur.snap[f]) = cur.led0[AbsPath(f)] ) =>
          C13_SameSecond(cur, f)

\* the file was uploaded by one call, rewritten within the same second, and
\* skipped by the next call, which ended without error: the remote copy is
\* not what the local file holds
C13_Witness ==
    /\ pc = "idle"
    /\ prev.status = "ok" /\ prev.ups[1] = 1
    /\ cur.status = "ok" /\ ~cur.dirty
    /\ C13_SameSecond(cur, 1)
    /\ cur.ups[1] = 0
    /\ files[1] # Absent
    /\ remote[1] \in Contents
    /\ content[1] # remote[1]

(***************************************************************************)
(* Properties of the construction of a store (checked under SpecStore).    *)
(***************************************************************************)
Opt(x) == IF x = <<>> THEN NoneV ELSE Some(x)
Contains(x, w) == \E k \in 0..(Len(x) - Len(w)) : SubSeq(x, k + 1, k + Len(w)) = w
SchemeEnd == <<COLON, SLASH, SLASH>>

\* the parts of the grammar [<scheme>://][<host>[:<port>]]<path>
IsScheme(x) ==
    \/ x = <<>>
    \/ /\ Len(x) >= 4
       /\ SubSeq(x, Len(x) - 2, Len(x)) = SchemeEnd
       /\ \A k \in 1..(Len(x) - 3) : x[k] \notin {SLASH, COLON, NL}
IsHost(x) == \A k \in 1..Len(x) : x[k] \notin {SLASH, COLON}
IsPort(x, host) ==
    \/ x = <<>>
    \/ /\ host # <<>>
       /\ Len(x) >= 2
       /\ x[1] = COLON
       /\ \A k \in 2..Len(x) : x[k] \in Digits
IsAbsPath(x) ==
    /\ x # <<>>
    /\ x[1] = SLASH
    /\ ~Contains(x, SchemeEnd)

\* every way to read u as [<scheme>://][<host>[:<port>]]<path> with a path
\* that is not empty
Readings(u) ==
    {d \in {[scheme |-> SubSeq(u, 1, a), host |-> SubSeq(u, a + 1, b),
             port |-> SubSeq(u, b + 1, c), path |-> SubSeq(u, c + 1, Len(u)),
             offset |-> c] :
               a \in 0..Len(u), b \in 0..Len(u), c \in 0..Len(u)} :
        /\ Len(d.scheme) + Len(d.host) + Len(d.port) + Len(d.path) = Len(u)
        /\ IsScheme(d.scheme) /\ IsHost(d.host) /\ IsPort(d.port, d.host)
        /\ d.path # <<>>}

\* what parse_url is to return for the reading d of u
Returns(u, d) ==
    /\ store.st # "AttributeError"
    /\ store.parsed.prefix = Opt(d.scheme)
    /\ store.parsed.host = Opt(d.host)
    /\ store.parsed.port = (IF d.port = <<>> THEN NoneV ELSE Some(int(Tail(d.port))))
    /\ store.parsed.path = Some(d.path)
    /\ store.parsed.path_offset = d.offset
    /\ PySliceFrom(u, store.parsed.path_offset) = d.path
    /\ PySliceTo(u, store.parsed.path_offset) \o d.path = u

\* the three locations C8 names, and what it says of them
C8_Named ==
    /\ url = <<"h", "d", "f", "s", ":", "/", "/", "n", "n", ":", "8", "0", "2", "0", "/", "a", "/", "b">> =>
          /\ store.st # "AttributeError"
          /\ store.parsed =
               [matched |-> TRUE, prefix |-> Some(FS_PREFIX),
                host |-> Some(<<"n", "n">>), port |-> Some(8020),
                path |-> Some(<<"/", "a", "/", "b">>), path_offset |-> 14]
    /\ url = <<"h", "d", "f", "s", ":", "/", "/", "/", "a", "/", "b">> =>
          /\ store.st # "AttributeError"
          /\ store.parsed.prefix = Some(FS_PREFIX)
          /\ store.parsed.host = NoneV
          /\ store.parsed.path = Some(<<"/", "a", "/", "b">>)
    /\ url = <<"/", "a", "/", "b">> =>
          /\ store.st # "AttributeError"
          /\ store.parsed.prefix = NoneV
          /\ store.parsed.path = Some(<<"/", "a", "/", "b">>)

\* C7: the construction raises the ValueError of _check_url when the parsed
\* prefix is there and is not 'hdfs://', raises the same error when no path
\* that is not empty could be extracted, and accepts every other location.
C7_Validation ==
    store.st # "new" =>
        LET r == parse_url(url)
            mismatch == r.matched /\ r.prefix.some /\ r.prefix.v # FS_PREFIX
            nopath == ~r.matched \/ ~r.path.some \/ r.path.v = <<>>
        IN  IF mismatch \/ nopath
            THEN store.st = "ValueError"
            ELSE store.st \in {"ok", "ConnectError"}

\* C8 as stated: for every location [<scheme>://][<host>[:<port>]]<path>
\* with a path that is not empty, parse_url returns the scheme prefix, the
\* host, the port as an integer and the path of that reading, and
\* path_offset is where the path begins.
C8_AsStated ==
    store.st # "new" =>
        /\ C8_Named
        /\ \A d \in Readings(url) : Returns(url, d)

\* C8 as amended: the same for every location without a line break whose
\* path begins with '/' and does not contain '://'.
C8_Parse ==
    store.st # "new" =>
        /\ C8_Named
        /\ \A d \in Readings(url) :
              (IsAbsPath(d.path) /\ ~Contains(url, <<NL>>)) => Returns(url, d)

C8_Witness ==
    /\ store.st = "ok"
    /\ \E d \in Readings(url) :
          /\ IsAbsPath(d.path) /\ ~Contains(url, <<NL>>)
          /\ d.scheme = FS_PREFIX /\ d.host # <<>> /\ d.port # <<>>
          /\ Len(d.path) > 1
          /\ Returns(url, d)

\* C9: an explicit host or port argument wins over the one of the location,
\* the one of the location is used when no argument is given, and with
\* neither the host is 'default' and the port 0.
C9_Resolution ==
    store.st = "ok" =>
        /\ store.hdfs_kwargs.host =
             (IF store.host_arg.some THEN store.host_arg.v
              ELSE IF store.parsed.host.some THEN store.parsed.host.v
              ELSE DEFAULT_HOST)
        /\ store.hdfs_kwargs.port =
             (IF store.port_arg.some THEN store.port_arg.v
              ELSE IF store.parsed.port.some THEN store.parsed.port.v
              ELSE 0)

====
